---- MODULE Spec2Model ----
(***************************************************************************)
(* A model of the core of tipping (core/src): the tokenizer, the token     *)
(* record, the interdependency graph, the clustering by anchor tokens and  *)
(* the template / parameter-mask builders, as driven by Parser::parse.     *)
(*                                                                         *)
(* Strings are sequences of UTF-8 bytes; a `&str` slice is the pair of its *)
(* byte offset in the message and its bytes.  Slicing a string at an       *)
(* offset that is no character boundary panics, as it does in Rust.        *)
(***************************************************************************)
EXTENDS Integers, Sequences, FiniteSets, TLC

\* ------------------------------------------------------------------ bounds
\* longest message, in characters, handed to a single tokenizer run
MaxLen == 3

\* --------------------------------------------------------------- characters
\* The characters of the model, as their UTF-8 encodings:
\* 'a', '1', ' ', '.', U+00E9 (e acute, 2 bytes), U+00A0 (no-break space, 2 bytes)
ChA == <<97>>
ChB == <<98>>
Ch1 == <<49>>
ChSp == <<32>>
ChDot == <<46>>
ChEacute == <<195, 169>>
ChNbsp == <<194, 160>>

Alphabet == {ChA, Ch1, ChSp, ChDot, ChEacute, ChNbsp}

\* char::is_alphabetic, char::is_numeric, char::is_whitespace on the characters
\* of the model: the ASCII letters and U+00E9, the ASCII digits, ' ' and U+00A0
is_alphabetic(c) == c \in {<<b>> : b \in (65..90) \cup (97..122)} \cup {ChEacute}
is_numeric(c) == c \in {<<b>> : b \in 48..57}
is_whitespace(c) == c \in {ChSp, ChNbsp}

\* ------------------------------------------------------------ str helpers
\* str::is_char_boundary: a byte offset that does not point into the middle
\* of a character (a continuation byte is 10xxxxxx).
is_char_boundary(s, i) ==
  \/ i = 0
  \/ i = Len(s)
  \/ (0 < i /\ i < Len(s) /\ ~(s[i + 1] \in 128..191))

\* &s[lo..hi] for offsets known to be character boundaries
Slice(s, lo, hi) == SubSeq(s, lo + 1, hi)

\* the character starting at the boundary i of s (one or two bytes here)
char_at(s, i) == IF s[i + 1] < 128 THEN <<s[i + 1]>> ELSE <<s[i + 1], s[i + 2]>>

\* str::chars
RECURSIVE chars_from(_, _)
chars_from(s, i) ==
  IF i >= Len(s) THEN <<>>
  ELSE LET c == char_at(s, i) IN <<c>> \o chars_from(s, i + Len(c))

chars(s) == chars_from(s, 0)

RECURSIVE Concat(_)
Concat(ss) == IF ss = <<>> THEN <<>> ELSE Head(ss) \o Concat(Tail(ss))

\* ------------------------------------------------------------------ tokens
\* Token::with: the variant of a slice cut out of an unrefined span
Token_with(slice, symbols) ==
  LET cs == chars(slice) IN
  IF \A k \in 1..Len(cs) : is_alphabetic(cs[k]) THEN "Alphabetic"
  ELSE IF \A k \in 1..Len(cs) : is_numeric(cs[k]) THEN "Numeric"
  ELSE IF Len(slice) = 1 THEN
    IF \A k \in 1..Len(cs) : is_whitespace(cs[k]) THEN "Whitespace"
    ELSE IF \A k \in 1..Len(cs) : cs[k] \in symbols THEN "Symbolic"
    ELSE "Impure"
  ELSE "Impure"

\* a token: its variant and the &str it borrows (offset in the message, bytes)
Tok(variant, start, slice) == [variant |-> variant, start |-> start, slice |-> slice]

as_str(tok) == tok.slice

\* Token's derived Eq / Hash / Ord: by variant and text
TokenKey(tok) == [variant |-> tok.variant, slice |-> tok.slice]

\* ------------------------------------------------------------------ regexes
\* A pattern is a literal text ("lit") or the greedy repetition c* of one
\* character ("star"), which also matches the empty string.
Lit(text) == [kind |-> "lit", text |-> text]
Star(c) == [kind |-> "star", text |-> c]

RECURSIVE run_end(_, _, _)
run_end(s, c, i) ==
  IF i + Len(c) <= Len(s) /\ Slice(s, i, i + Len(c)) = c
  THEN run_end(s, c, i + Len(c)) ELSE i

\* Regex::find_from_pos: the leftmost match starting at or after pos, as
\* <<start, end>>, or <<>> when there is none
RECURSIVE find_from_pos(_, _, _)
find_from_pos(re, s, pos) ==
  IF pos > Len(s) THEN <<>>
  ELSE IF re.kind = "star" THEN <<pos, run_end(s, re.text, pos)>>
  ELSE IF pos + Len(re.text) > Len(s) THEN <<>>
  ELSE IF Slice(s, pos, pos + Len(re.text)) = re.text THEN <<pos, pos + Len(re.text)>>
  ELSE find_from_pos(re, s, pos + 1)

next_utf8(s, i) == IF i >= Len(s) THEN i + 1 ELSE i + Len(char_at(s, i))

\* Regex::find_iter: the successive non-overlapping matches; an empty match
\* advances by one character and is dropped when it touches the last match
RECURSIVE find_iter_from(_, _, _, _)
find_iter_from(re, s, last_end, last_match) ==
  IF last_end > Len(s) THEN <<>>
  ELSE LET m == find_from_pos(re, s, last_end) IN
    IF m = <<>> THEN <<>>
    ELSE IF m[1] = m[2] THEN
      IF m[2] = last_match
      THEN find_iter_from(re, s, next_utf8(s, m[2]), last_match)
      ELSE <<m>> \o find_iter_from(re, s, next_utf8(s, m[2]), m[2])
    ELSE <<m>> \o find_iter_from(re, s, m[2], m[2])

find_iter(re, s) == find_iter_from(re, s, 0, -1)

\* ------------------------------------------------------------ pre-tokenize
PreTok(kind, start, slice) == [kind |-> kind, start |-> start, slice |-> slice]

\* split_special on the span `span` (an Unrefined pre-token): the loop over
\* the matches, then the trailing unrefined rest
RECURSIVE split_special_loop(_, _, _, _, _)
split_special_loop(span, ms, special_type, last_idx, pre_tokens) ==
  LET msg == span.slice IN
  IF ms = <<>> THEN
    IF last_idx # Len(msg)
    THEN Append(pre_tokens, PreTok("Unrefined", span.start + last_idx, Slice(msg, last_idx, Len(msg))))
    ELSE pre_tokens
  ELSE
    LET start == Head(ms)[1]
        end == Head(ms)[2]
    IN IF end - start > 0 THEN
         split_special_loop(span, Tail(ms), special_type, end,
           (IF start # last_idx
            THEN Append(pre_tokens, PreTok("Unrefined", span.start + last_idx, Slice(msg, last_idx, start)))
            ELSE pre_tokens)
           \o <<PreTok(special_type, span.start + start, Slice(msg, start, end))>>)
       ELSE split_special_loop(span, Tail(ms), special_type, last_idx, pre_tokens)

\* faulty variant: the empty matches are not skipped
RECURSIVE split_special_loop_all(_, _, _, _, _)
split_special_loop_all(span, ms, special_type, last_idx, pre_tokens) ==
  LET msg == span.slice IN
  IF ms = <<>> THEN
    IF last_idx # Len(msg)
    THEN Append(pre_tokens, PreTok("Unrefined", span.start + last_idx, Slice(msg, last_idx, Len(msg))))
    ELSE pre_tokens
  ELSE
    LET start == Head(ms)[1]
        end == Head(ms)[2]
    IN split_special_loop_all(span, Tail(ms), special_type, end,
         (IF start # last_idx
          THEN Append(pre_tokens, PreTok("Unrefined", span.start + last_idx, Slice(msg, last_idx, start)))
          ELSE pre_tokens)
         \o <<PreTok(special_type, span.start + start, Slice(msg, start, end))>>)

split_special_all(span, regex, special_type) ==
  split_special_loop_all(span, find_iter(regex, span.slice), special_type, 0, <<>>)

\* faulty variant: the unrefined rest after the last match is forgotten
split_special_no_rest(span, regex, special_type) ==
  LET r == split_special_loop(span, find_iter(regex, span.slice), special_type, 0, <<>>) IN
  IF r # <<>> /\ r[Len(r)].kind = "Unrefined" THEN SubSeq(r, 1, Len(r) - 1) ELSE r

split_special(span, regex, special_type) ==
  split_special_loop(span, find_iter(regex, span.slice), special_type, 0, <<>>)

\* faulty variant: the pattern is also applied inside the special spans
RECURSIVE regex_pass_all(_, _, _)
regex_pass_all(pts, regex, special_type) ==
  IF pts = <<>> THEN <<>>
  ELSE split_special(Head(pts), regex, special_type)
       \o regex_pass_all(Tail(pts), regex, special_type)

\* one iteration of a `for regex in ...` loop of pre_tokenize
RECURSIVE regex_pass(_, _, _)
regex_pass(pts, regex, special_type) ==
  IF pts = <<>> THEN <<>>
  ELSE (IF Head(pts).kind = "Unrefined"
        THEN split_special(Head(pts), regex, special_type)
        ELSE <<Head(pts)>>)
       \o regex_pass(Tail(pts), regex, special_type)

RECURSIVE regex_passes(_, _, _)
regex_passes(pts, regexes, special_type) ==
  IF regexes = <<>> THEN pts
  ELSE regex_passes(regex_pass(pts, Head(regexes), special_type), Tail(regexes), special_type)

pre_tokenize(tokenizer, msg) ==
  regex_passes(
    regex_passes(<<PreTok("Unrefined", 0, msg)>>, tokenizer.special_whites, "SpecialWhite"),
    tokenizer.special_blacks, "SpecialBlack")

\* ------------------------------------------------------------- split_token
\* str::find with the closure of split_token: the byte offset of the first
\* whitespace or symbol character at or after i, or -1 (None)
RECURSIVE find_split(_, _, _)
find_split(s, symbols, i) ==
  IF i >= Len(s) THEN -1
  ELSE LET c == char_at(s, i) IN
    IF is_whitespace(c) \/ c \in symbols THEN i
    ELSE find_split(s, symbols, i + Len(c))

\* A result that may be a panic: [ok, toks]
Ok(toks) == [ok |-> TRUE, toks |-> toks]
Panic == [ok |-> FALSE, toks |-> <<>>]

\* split_token on an Unrefined span; &msg[end_idx..end_idx + 1] panics when
\* end_idx + 1 is not a character boundary
RECURSIVE split_token_loop(_, _, _, _)
split_token_loop(span, symbols, start_idx, toks) ==
  LET msg == span.slice
      end_idx == find_split(msg, symbols, start_idx)
  IN IF end_idx = -1 THEN
       IF start_idx < Len(msg)
       THEN Ok(Append(toks, Tok(Token_with(Slice(msg, start_idx, Len(msg)), symbols),
                                span.start + start_idx, Slice(msg, start_idx, Len(msg)))))
       ELSE Ok(toks)
     ELSE IF ~is_char_boundary(msg, end_idx + 1) THEN Panic
     ELSE split_token_loop(span, symbols, end_idx + 1,
            (IF start_idx < end_idx
             THEN Append(toks, Tok(Token_with(Slice(msg, start_idx, end_idx), symbols),
                                   span.start + start_idx, Slice(msg, start_idx, end_idx)))
             ELSE toks)
            \o <<Tok(Token_with(Slice(msg, end_idx, end_idx + 1), symbols),
                     span.start + end_idx, Slice(msg, end_idx, end_idx + 1))>>)

split_token(span, symbols) == split_token_loop(span, symbols, 0, <<>>)

\* one iteration of the loop of Tokenizer::tokenize
refine(pre_token, symbols) ==
  IF pre_token.kind = "Unrefined" THEN split_token(pre_token, symbols)
  ELSE Ok(<<Tok(pre_token.kind, pre_token.start, pre_token.slice)>>)

RECURSIVE tokenize_loop(_, _, _)
tokenize_loop(pts, symbols, tokens) ==
  IF pts = <<>> THEN Ok(tokens)
  ELSE LET r == refine(Head(pts), symbols) IN
    IF ~r.ok THEN Panic
    ELSE tokenize_loop(Tail(pts), symbols, tokens \o r.toks)

\* Tokenizer::tokenize
tokenize(tokenizer, msg) == tokenize_loop(pre_tokenize(tokenizer, msg), tokenizer.symbols, <<>>)

\* Tokenizer::new_with_symbols
new_with_symbols(tokenizer, symbols) == [tokenizer EXCEPT !.symbols = symbols]

\* --------------------------------------------------------- parameter masks
\* faulty variant: one mask byte for the token, whatever its length
Repeat_once(ch, n) == <<ch>>

\* (0..n).for_each(|_| msk_vec.push(ch))
Repeat(ch, n) == [k \in 1..n |-> ch]

\* faulty variant: a Symbolic token clears the latch, as a Whitespace token does
RECURSIVE mask_loop_symbol_clears(_, _, _, _, _)
mask_loop_symbol_clears(toks, idx, common, msk_vec, should_parameterize) ==
  IF idx > Len(toks) THEN msk_vec
  ELSE
    LET tok == toks[idx]
        slice == tok.slice
        next_closes == \/ idx + 1 > Len(toks)
                       \/ toks[idx + 1].variant \in {"Whitespace", "Symbolic"}
    IN CASE tok.variant = "Symbolic" ->
              mask_loop_symbol_clears(toks, idx + 1, common,
                Append(msk_vec,
                  IF slice \in common
                  THEN (IF next_closes THEN "0"
                        ELSE IF should_parameterize THEN "1" ELSE "0")
                  ELSE "1"),
                FALSE)
         [] tok.variant = "Whitespace" ->
              mask_loop_symbol_clears(toks, idx + 1, common, Append(msk_vec, "0"), FALSE)
         [] tok.variant = "SpecialWhite" ->
              mask_loop_symbol_clears(toks, idx + 1, common,
                                      msk_vec \o [k \in 1..Len(slice) |-> "0"], should_parameterize)
         [] tok.variant = "SpecialBlack" ->
              mask_loop_symbol_clears(toks, idx + 1, common,
                                      msk_vec \o [k \in 1..Len(slice) |-> "1"], should_parameterize)
         [] OTHER ->
              IF slice \notin common \/ should_parameterize
              THEN mask_loop_symbol_clears(toks, idx + 1, common,
                                           msk_vec \o [k \in 1..Len(slice) |-> "1"], TRUE)
              ELSE mask_loop_symbol_clears(toks, idx + 1, common,
                                           msk_vec \o [k \in 1..Len(slice) |-> "0"], should_parameterize)

\* the closure run on every token by parameter_masks, msk_vec and the latch
\* should_parameterize threaded through it
RECURSIVE mask_loop(_, _, _, _, _)
mask_loop(toks, idx, common, msk_vec, should_parameterize) ==
  IF idx > Len(toks) THEN msk_vec
  ELSE
    LET tok == toks[idx]
        slice == tok.slice
        next_closes == \/ idx + 1 > Len(toks)
                       \/ toks[idx + 1].variant \in {"Whitespace", "Symbolic"}
    IN CASE tok.variant = "Symbolic" ->
              mask_loop(toks, idx + 1, common,
                Append(msk_vec,
                  IF slice \in common
                  THEN (IF next_closes \/ next_closes THEN "0"
                        ELSE IF should_parameterize THEN "1" ELSE "0")
                  ELSE "1"),
                should_parameterize)
         [] tok.variant = "Whitespace" ->
              mask_loop(toks, idx + 1, common, Append(msk_vec, "0"), FALSE)
         [] tok.variant = "SpecialWhite" ->
              mask_loop(toks, idx + 1, common, msk_vec \o Repeat("0", Len(slice)),
                        should_parameterize)
         [] tok.variant = "SpecialBlack" ->
              mask_loop(toks, idx + 1, common, msk_vec \o Repeat("1", Len(slice)),
                        should_parameterize)
         [] OTHER ->
              IF slice \notin common \/ should_parameterize
              THEN mask_loop(toks, idx + 1, common, msk_vec \o Repeat("1", Len(slice)), TRUE)
              ELSE mask_loop(toks, idx + 1, common, msk_vec \o Repeat("0", Len(slice)),
                             should_parameterize)

\* faulty variant: every Symbolic token is masked as one with a shared text
message_mask_symbols_shared(toks, common) ==
  mask_loop(toks, 1,
            common \cup {toks[k].slice : k \in {j \in 1..Len(toks) : toks[j].variant = "Symbolic"}},
            <<>>, FALSE)

\* faulty variant: the latch should_parameterize starts set
message_mask_latched(toks, common) == mask_loop(toks, 1, common, <<>>, TRUE)

\* the mask parameter_masks inserts for one message with tokens toks
message_mask(toks, common) == mask_loop(toks, 1, common, <<>>, FALSE)

\* ============================================================ token record
\* StaticFilter::token_filter, on the filter flags of the parser
token_filter(p, tok) ==
  CASE tok.variant = "Alphabetic" -> p.filter_alphabetic
    [] tok.variant = "Numeric" -> p.filter_numeric
    [] tok.variant = "Impure" -> p.filter_impure
    [] tok.variant = "Symbolic" -> FALSE
    [] tok.variant = "Whitespace" -> FALSE
    [] tok.variant = "SpecialBlack" -> FALSE
    [] tok.variant = "SpecialWhite" -> TRUE

\* the order of &str: bytewise lexicographic
RECURSIVE str_gt(_, _)
str_gt(a, b) ==
  IF a = <<>> THEN FALSE
  ELSE IF b = <<>> THEN TRUE
  ELSE IF Head(a) # Head(b) THEN Head(a) > Head(b)
  ELSE str_gt(Tail(a), Tail(b))

\* TokenPair::with: the larger text first
TokenPair_with(t1, t2) == IF str_gt(t1, t2) THEN <<t1, t2>> ELSE <<t2, t1>>

\* a map with no entry
EmptyMap == [k \in {} |-> 0]

\* the HashSet of texts the fold closure of TokenRecord::new collects from
\* the tokens of one message
record_texts(p, toks) == {as_str(toks[k]) : k \in {j \in 1..Len(toks) : token_filter(p, toks[j])}}

\* entry(k).and_modify(+1).or_insert(1) for every key of ks
count_all(map, ks) ==
  [k \in DOMAIN map \cup ks |->
     (IF k \in DOMAIN map THEN map[k] ELSE 0) + (IF k \in ks THEN 1 ELSE 0)]

\* faulty variant: the pairs are not restricted to two distinct texts
record_fold_self_pairs(p, acc, toks) ==
  LET texts == record_texts(p, toks) IN
  [soc |-> count_all(acc.soc, texts),
   poc |-> count_all(acc.poc, {TokenPair_with(pr[1], pr[2]) : pr \in texts \X texts})]

\* faulty variant: every occurrence of a text in the message is counted
record_fold_per_occurrence(p, acc, toks) ==
  LET texts == record_texts(p, toks)
      occ(t) == Cardinality({j \in 1..Len(toks) : token_filter(p, toks[j]) /\ as_str(toks[j]) = t})
  IN [soc |-> [k \in DOMAIN acc.soc \cup texts |->
                 (IF k \in DOMAIN acc.soc THEN acc.soc[k] ELSE 0) + (IF k \in texts THEN occ(k) ELSE 0)],
      poc |-> count_all(acc.poc, {TokenPair_with(pr[1], pr[2]) : pr \in {q \in texts \X texts : q[1] # q[2]}})]

\* the fold closure of TokenRecord::new on the tokens of one message
record_fold(p, acc, toks) ==
  LET texts == record_texts(p, toks) IN
  [soc |-> count_all(acc.soc, texts),
   poc |-> count_all(acc.poc, {TokenPair_with(pr[1], pr[2]) : pr \in {q \in texts \X texts : q[1] # q[2]}})]

\* faulty variant: of two counts of a key the larger is kept
absorb_counts_max(big, small) ==
  [k \in DOMAIN big \cup DOMAIN small |->
     IF k \notin DOMAIN small THEN big[k]
     ELSE IF k \notin DOMAIN big THEN small[k]
     ELSE IF big[k] > small[k] THEN big[k] ELSE small[k]]

\* the larger count map absorbs the smaller one, adding the counts
absorb_counts(big, small) ==
  [k \in DOMAIN big \cup DOMAIN small |->
     (IF k \in DOMAIN big THEN big[k] ELSE 0) + (IF k \in DOMAIN small THEN small[k] ELSE 0)]

\* faulty variant: a count of the smaller map is dropped when the larger map
\* has the key already
merge_counts_no_add(m1, m2) ==
  LET big == IF Cardinality(DOMAIN m1) > Cardinality(DOMAIN m2) THEN m1 ELSE m2
      small == IF Cardinality(DOMAIN m1) > Cardinality(DOMAIN m2) THEN m2 ELSE m1
  IN [k \in DOMAIN big \cup DOMAIN small |-> IF k \in DOMAIN big THEN big[k] ELSE small[k]]

merge_counts(m1, m2) ==
  IF Cardinality(DOMAIN m1) > Cardinality(DOMAIN m2)
  THEN absorb_counts(m1, m2) ELSE absorb_counts(m2, m1)

\* faulty variant: the single counts of the second accumulator are dropped
record_reduce_soc_lost(a1, a2) ==
  [soc |-> a1.soc, poc |-> merge_counts(a1.poc, a2.poc)]

\* the reduce closure of TokenRecord::new
record_reduce(a1, a2) ==
  [soc |-> merge_counts(a1.soc, a2.soc), poc |-> merge_counts(a1.poc, a2.poc)]

EmptyRecord == [soc |-> EmptyMap, poc |-> EmptyMap]

\* TokenRecord::occurence: TRUE when Some
occurence_is_some(idep, tok) == tok \in DOMAIN idep.soc

\* TokenRecord::dependency: the quotient double / single as the pair
\* <<double, single>>, or <<>> for None
dependency(idep, eve, con) ==
  IF TokenPair_with(eve, con) \notin DOMAIN idep.poc THEN <<>>
  ELSE IF eve \notin DOMAIN idep.soc THEN <<>>
  ELSE <<idep.poc[TokenPair_with(eve, con)], idep.soc[eve]>>

\* faulty variant: a dependency equal to the threshold counts as exceeding it
exceeds_or_equals(dep, threshold) ==
  IF dep = <<>> THEN 0 >= threshold[1]
  ELSE dep[1] * threshold[2] >= threshold[1] * dep[2]

\* faulty variant: a dependency at or below the threshold makes the edge
exceeds_not(dep, threshold) ==
  IF dep = <<>> THEN FALSE
  ELSE dep[1] * threshold[2] <= threshold[1] * dep[2]

\* `dep.unwrap_or(0.0) > threshold`, the threshold the fraction <<num, den>>
exceeds(dep, threshold) ==
  IF dep = <<>> THEN 0 > threshold[1]
  ELSE dep[1] * threshold[2] > threshold[1] * dep[2]

\* =================================================================== graph
\* Itertools::unique: the first occurrence of every element, in order
RECURSIVE unique(_, _)
unique(seq, seen) ==
  IF seq = <<>> THEN <<>>
  ELSE IF Head(seq) \in seen THEN unique(Tail(seq), seen)
  ELSE <<Head(seq)>> \o unique(Tail(seq), seen \cup {Head(seq)})

\* the elements of a set of integers, ascending
RECURSIVE Asc(_)
Asc(S) ==
  IF S = {} THEN <<>>
  ELSE LET m == CHOOSE x \in S : \A y \in S : x <= y IN <<m>> \o Asc(S \ {m})

\* build_graph for the candidate tokens of one message: node k is nodes[k],
\* an edge <<i, j>> for every ordered pair of distinct nodes that
\* is_connected holds of
build_graph(idep, threshold, candidates) ==
  LET nodes == unique(candidates, {}) IN
  [nodes |-> nodes,
   edges |-> {e \in (1..Len(nodes)) \X (1..Len(nodes)) :
                /\ e[1] # e[2]
                /\ exceeds(dependency(idep, as_str(nodes[e[1]]), as_str(nodes[e[2]])), threshold)}]

\* kosaraju_scc, first phase: DfsPostOrder over the reversed graph from the
\* stack; the neighbours of a node are pushed in ascending index order
RECURSIVE dfs_post_order(_, _, _, _, _)
dfs_post_order(g, stack, discovered, finished, out) ==
  IF stack = <<>> THEN [discovered |-> discovered, finished |-> finished, out |-> out]
  ELSE
    LET nx == stack[Len(stack)] IN
    IF nx \notin discovered THEN
      LET d2 == discovered \cup {nx}
          succ == {m \in 1..Len(g.nodes) : <<m, nx>> \in g.edges /\ m \notin d2}
      IN dfs_post_order(g, stack \o Asc(succ), d2, finished, out)
    ELSE
      LET rest == SubSeq(stack, 1, Len(stack) - 1) IN
      IF nx \notin finished
      THEN dfs_post_order(g, rest, discovered, finished \cup {nx}, Append(out, nx))
      ELSE dfs_post_order(g, rest, discovered, finished, out)

RECURSIVE finish_order(_, _, _)
finish_order(g, i, st) ==
  IF i > Len(g.nodes) THEN st.out
  ELSE IF i \in st.discovered THEN finish_order(g, i + 1, st)
  ELSE finish_order(g, i + 1, dfs_post_order(g, <<i>>, st.discovered, st.finished, st.out))

\* faulty variant: the Dfs does not follow the edges
reach_no_follow(g, frontier, visited) == visited \cup frontier

\* the nodes a Dfs from the nodes of `frontier` visits, `visited` being
\* discovered already
RECURSIVE reach(_, _, _)
reach(g, frontier, visited) ==
  IF frontier = {} THEN visited
  ELSE LET v2 == visited \cup frontier
           nxt == {m \in 1..Len(g.nodes) : m \notin v2 /\ \E f \in frontier : <<f, m>> \in g.edges}
       IN reach(g, nxt, v2)

\* kosaraju_scc, second phase: the leaders in decreasing finishing time
RECURSIVE scc_loop(_, _, _, _)
scc_loop(g, order, discovered, sccs) ==
  IF order = <<>> THEN sccs
  ELSE
    LET i == order[Len(order)]
        rest == SubSeq(order, 1, Len(order) - 1)
    IN IF i \in discovered THEN scc_loop(g, rest, discovered, sccs)
       ELSE LET d2 == reach(g, {i}, discovered) IN
            scc_loop(g, rest, d2, Append(sccs, d2 \ discovered))

kosaraju_scc(g) ==
  scc_loop(g, finish_order(g, 1, [discovered |-> {}, finished |-> {}, out |-> <<>>]), {}, <<>>)

\* faulty variant: the first of the largest components
max_by_key_first(sccs) ==
  IF sccs = <<>> THEN 0
  ELSE CHOOSE k \in 1..Len(sccs) :
         /\ \A j \in 1..Len(sccs) : Cardinality(sccs[j]) <= Cardinality(sccs[k])
         /\ \A j \in 1..(k - 1) : Cardinality(sccs[j]) < Cardinality(sccs[k])

\* Iterator::max_by_key(|cc| cc.len()): the index of the last of the largest
\* components, 0 for an empty list
max_by_key_len(sccs) ==
  IF sccs = <<>> THEN 0
  ELSE CHOOSE k \in 1..Len(sccs) :
         /\ \A j \in 1..Len(sccs) : Cardinality(sccs[j]) <= Cardinality(sccs[k])
         /\ \A j \in (k + 1)..Len(sccs) : Cardinality(sccs[j]) < Cardinality(sccs[k])

\* faulty variant: the nodes of every component are returned
anchor_nodes_every(g) ==
  LET scc == kosaraju_scc(g)
  IN {TokenKey(g.nodes[v]) : v \in UNION {scc[k] : k \in 1..Len(scc)}}

\* anchor_nodes: the node weights of the component max_by_key picks
anchor_nodes(g) ==
  LET scc == kosaraju_scc(g)
      k == max_by_key_len(scc)
  IN IF k = 0 THEN {} ELSE {TokenKey(g.nodes[v]) : v \in scc[k]}

\* ================================================================ clusters
RECURSIVE select_tokens(_, _, _)
select_tokens(idep, toks, k) ==
  IF k > Len(toks) THEN <<>>
  ELSE (IF occurence_is_some(idep, as_str(toks[k])) THEN <<TokenKey(toks[k])>> ELSE <<>>)
       \o select_tokens(idep, toks, k + 1)

\* faulty variant: the special tokens leave the anchor nodes as they are
adjust_specials_skipped(toks, k, anchor_toks) == anchor_toks

\* the loop of group_by_anchor_tokens over the tokens of the message
RECURSIVE adjust_specials(_, _, _)
adjust_specials(toks, k, anchor_toks) ==
  IF k > Len(toks) THEN anchor_toks
  ELSE adjust_specials(toks, k + 1,
         CASE toks[k].variant = "SpecialWhite" -> anchor_toks \cup {TokenKey(toks[k])}
           [] toks[k].variant = "SpecialBlack" -> anchor_toks \ {TokenKey(toks[k])}
           [] OTHER -> anchor_toks)

\* the map closure of group_by_anchor_tokens: the anchor tokens of a message
\* with tokens toks
anchor_tokens(idep, threshold, toks) ==
  adjust_specials(toks, 1,
    anchor_nodes(build_graph(idep, threshold, select_tokens(idep, toks, 1))))

\* the fold closure of group_by_anchor_tokens
group_fold(map, idx, anchor) ==
  IF anchor \in DOMAIN map
  THEN [map EXCEPT ![anchor] = @ \cup {idx}]
  ELSE [k \in DOMAIN map \cup {anchor} |-> IF k = anchor THEN {idx} ELSE map[k]]

\* faulty variant: an index set of the smaller map replaces the one of the
\* larger map instead of extending it
absorb_groups_overwrite(big, small) ==
  [k \in DOMAIN big \cup DOMAIN small |-> IF k \in DOMAIN small THEN small[k] ELSE big[k]]

\* the larger map absorbs the smaller one, uniting the index sets
absorb_groups(big, small) ==
  [k \in DOMAIN big \cup DOMAIN small |->
     (IF k \in DOMAIN big THEN big[k] ELSE {}) \cup (IF k \in DOMAIN small THEN small[k] ELSE {})]

\* the reduce closure of group_by_anchor_tokens
group_reduce(m1, m2) ==
  IF Cardinality(DOMAIN m1) > Cardinality(DOMAIN m2)
  THEN absorb_groups(m1, m2) ELSE absorb_groups(m2, m1)

\* ================================================== shared slices, templates
\* the texts shared_slices keeps of the tokens of one message
retained_slices(p, toks) ==
  {as_str(toks[k]) : k \in {j \in 1..Len(toks) :
     \/ toks[j].variant \in {"SpecialWhite", "Whitespace", "Symbolic"}
     \/ (toks[j].variant = "Alphabetic" /\ p.filter_alphabetic)
     \/ (toks[j].variant = "Numeric" /\ p.filter_numeric)
     \/ (toks[j].variant = "Impure" /\ p.filter_impure)}}

\* faulty variant: of two sets the left one is kept
shared_reduce_keep_left(s1, s2) == IF s1 = <<>> THEN s2 ELSE s1

\* the reduce closure of shared_slices on Option values, <<>> for None
shared_reduce(s1, s2) ==
  IF s1 = <<>> THEN s2
  ELSE IF s2 = <<>> THEN s1
  ELSE <<s1[1] \cap s2[1]>>

RECURSIVE shared_fold(_, _, _)
shared_fold(p, tokss, acc) ==
  IF tokss = <<>> THEN acc
  ELSE shared_fold(p, Tail(tokss), shared_reduce(acc, <<retained_slices(p, Head(tokss))>>))

\* shared_slices of the messages whose token lists are tokss
shared_slices(p, tokss) ==
  LET r == shared_fold(p, tokss, <<>>) IN IF r = <<>> THEN {} ELSE r[1]

\* rayon's reduce over the items with the positions of S: the items are
\* combined pairwise in any grouping and any order, the identity None being
\* combined in at any place; the set of the values it can return
RECURSIVE reduce_outcomes(_, _)
reduce_outcomes(items, S) ==
  IF S = {} THEN {<<>>}
  ELSE LET base == IF Cardinality(S) = 1
                   THEN {items[CHOOSE k \in S : TRUE]}
                   ELSE UNION {{shared_reduce(a, b) :
                                  a \in reduce_outcomes(items, S1),
                                  b \in reduce_outcomes(items, S \ S1)} :
                               S1 \in (SUBSET S) \ {{}, S}}
       IN base \cup {shared_reduce(<<>>, x) : x \in base}
               \cup {shared_reduce(x, <<>>) : x \in base}

\* the sets shared_slices can return for the messages whose token lists are
\* tokss, one for every way the parallel reduction can go
shared_slices_any(p, tokss) ==
  LET items == [k \in 1..Len(tokss) |-> <<retained_slices(p, tokss[k])>>]
  IN {IF r = <<>> THEN {} ELSE r[1] : r \in reduce_outcomes(items, 1..Len(tokss))}

\* "<*>"
Placeholder == <<60, 42, 62>>

\* the template of one message: every token its text when shared, else the
\* placeholder, concatenated
RECURSIVE render(_, _, _)
render(toks, k, common) ==
  IF k > Len(toks) THEN <<>>
  ELSE (IF as_str(toks[k]) \in common THEN as_str(toks[k]) ELSE Placeholder)
       \o render(toks, k + 1, common)

\* faulty variant: only the first message of the cluster is rendered
templates_first_only(tokss, common) ==
  IF tokss = <<>> THEN {} ELSE {render(tokss[1], 1, common)}

\* templates of the messages whose token lists are tokss
templates(tokss, common) == {render(tokss[k], 1, common) : k \in 1..Len(tokss)}

\* ------------------------------------------------------------------- state
VARIABLES
  messages,       \* the corpus handed to the run
  parser,         \* the fields of Parser
  pc,             \* where the run is
  regex_idx,      \* position in the loop over patterns / pre-tokens
  pre_toks,       \* pre_tokenize: the pre-token list
  tokens,         \* tokenize: the tokens pushed so far
  common_slices,  \* parameter_masks: the shared-slice set it is given
  msk_vec,        \* parameter_masks: the mask of the message
  next_idx,       \* par_bridge: the index of the next message a worker takes
  accs,           \* fold_with: the accumulator of every worker
  idep,           \* parse: the TokenRecord
  groups,         \* parse: the map of group_by_anchor_tokens
  iterated,       \* parse: the keys groups.into_iter() has yielded
  clus,           \* parse: Clusters, <<>> for None and <<cid>> for Some(cid)
  temps,          \* parse: Templates
  masks           \* parse: Masks, message text to mask

tokvars == <<regex_idx, pre_toks, tokens, common_slices, msk_vec>>
parsevars == <<next_idx, accs, idep, groups, iterated, clus, temps, masks>>
vars == <<messages, parser, pc, tokvars, parsevars>>

\* Tokenizer::new from the fields of the parser
Tokenizer_new(p) ==
  [special_whites |-> p.special_whites, special_blacks |-> p.special_blacks,
   symbols |-> p.symbols]

\* all strings of at most n characters
Strings(n) == {Concat(cs) : cs \in UNION {[1..k -> Alphabet] : k \in 0..n}}

\* Parser::new
Parser_new ==
  [threshold |-> <<1, 2>>, special_whites |-> <<>>, special_blacks |-> <<>>,
   symbols |-> {}, filter_alphabetic |-> TRUE, filter_numeric |-> FALSE,
   filter_impure |-> FALSE, compute_templates |-> FALSE, compute_mask |-> FALSE]

\* faulty variant: the upper bound is not asserted
with_threshold_no_upper(p, value) ==
  IF ~(0 <= value[1]) THEN [ok |-> FALSE, parser |-> p]
  ELSE [ok |-> TRUE, parser |-> [p EXCEPT !.threshold = value]]

\* Parser::with_threshold on the fraction value = <<num, den>>, den > 0: the
\* two assertions, then the assignment; [ok, parser], ok FALSE for a panic
with_threshold(p, value) ==
  IF ~(0 <= value[1]) THEN [ok |-> FALSE, parser |-> p]
  ELSE IF ~(value[1] <= value[2]) THEN [ok |-> FALSE, parser |-> p]
  ELSE [ok |-> TRUE, parser |-> [p EXCEPT !.threshold = value]]

\* ============================================================ TokSpec
\* One message through Tokenizer::tokenize, step by step, and then through
\* the per-message closure of parameter_masks.
TokWhites == {<<>>, <<Lit(ChA)>>, <<Lit(ChA \o ChDot), Star(ChA)>>}
TokBlacks == {<<>>, <<Star(Ch1)>>, <<Lit(ChDot \o Ch1), Star(Ch1)>>}
TokSymbols == {{}, {ChDot}, {ChDot, ChA}, {ChEacute}}

TokInit ==
  /\ messages \in {<<m>> : m \in Strings(MaxLen)}
  /\ parser \in {[Parser_new EXCEPT !.special_whites = w, !.special_blacks = b, !.symbols = s] :
                    w \in TokWhites, b \in TokBlacks, s \in TokSymbols}
  /\ pc = "whites"
  /\ regex_idx = 1
  /\ pre_toks = <<PreTok("Unrefined", 0, messages[1])>>
  /\ tokens = <<>>
  /\ common_slices = {}
  /\ msk_vec = <<>>
  /\ next_idx = 0
  /\ accs = <<>>
  /\ idep = EmptyRecord
  /\ groups = EmptyMap
  /\ iterated = {}
  /\ clus = <<>>
  /\ temps = <<>>
  /\ masks = EmptyMap

\* pre_tokenize, `for regex in &self.special_whites`
ForWhite ==
  /\ pc = "whites"
  /\ IF regex_idx <= Len(parser.special_whites)
     THEN /\ pre_toks' = regex_pass(pre_toks, parser.special_whites[regex_idx], "SpecialWhite")
          /\ regex_idx' = regex_idx + 1
          /\ pc' = pc
     ELSE /\ pc' = "blacks"
          /\ regex_idx' = 1
          /\ pre_toks' = pre_toks
  /\ UNCHANGED <<messages, parser, tokens, common_slices, msk_vec, parsevars>>

\* pre_tokenize, `for regex in &self.special_blacks`
ForBlack ==
  /\ pc = "blacks"
  /\ IF regex_idx <= Len(parser.special_blacks)
     THEN /\ pre_toks' = regex_pass(pre_toks, parser.special_blacks[regex_idx], "SpecialBlack")
          /\ regex_idx' = regex_idx + 1
          /\ pc' = pc
     ELSE /\ pc' = "refine"
          /\ regex_idx' = 1
          /\ pre_toks' = pre_toks
  /\ UNCHANGED <<messages, parser, tokens, common_slices, msk_vec, parsevars>>

\* tokenize, `for pre_token in self.pre_tokenize(msg)`
ForPreToken ==
  /\ pc = "refine"
  /\ IF regex_idx <= Len(pre_toks)
     THEN LET r == refine(pre_toks[regex_idx], parser.symbols) IN
          IF r.ok
          THEN /\ tokens' = tokens \o r.toks
               /\ regex_idx' = regex_idx + 1
               /\ pc' = pc
          ELSE /\ pc' = "panic"
               /\ UNCHANGED <<tokens, regex_idx>>
     ELSE /\ pc' = "tokenized"
          /\ UNCHANGED <<tokens, regex_idx>>
  /\ UNCHANGED <<messages, parser, pre_toks, common_slices, msk_vec, parsevars>>

TokenTexts(toks) == {toks[k].slice : k \in 1..Len(toks)}

\* parameter_masks on the message, for some shared-slice set
MaskMessage ==
  /\ pc = "tokenized"
  /\ \E common \in SUBSET TokenTexts(tokens) :
       /\ common_slices' = common
       /\ msk_vec' = message_mask(tokens, common)
  /\ pc' = "masked"
  /\ UNCHANGED <<messages, parser, regex_idx, pre_toks, tokens, parsevars>>

\* templates on the message alone, for some shared-slice set
TemplateMessage ==
  /\ pc = "tokenized"
  /\ \E common \in SUBSET TokenTexts(tokens) :
       /\ common_slices' = common
       /\ temps' = <<templates(<<tokens>>, common)>>
  /\ pc' = "rendered"
  /\ UNCHANGED <<messages, parser, regex_idx, pre_toks, tokens, msk_vec,
                 next_idx, accs, idep, groups, iterated, clus, masks>>

TokNext == ForWhite \/ ForBlack \/ ForPreToken \/ MaskMessage \/ TemplateMessage

TokSpec == TokInit /\ [][TokNext]_vars

\* =============================================================== Spec
\* Parser::parse on a corpus: TokenRecord::new (fold, reduce), then
\* group_by_anchor_tokens (map, fold, reduce), then the loop over the groups.

\* the corpus is at most MaxMsgs messages of Pool
MaxMsgs == 2

Pool ==
  { ChA \o ChSp \o ChB,     \* "a b"
    ChA \o ChSp \o ChB \o ChSp \o ChEacute \o ChSp \o ChA,   \* "a b \u{e9} a"
    ChA \o ChSp \o Ch1,     \* "a 1"
    Ch1,                    \* "1"
    ChA \o ChNbsp }         \* "a\u{a0}"

Corpora == UNION {[1..n -> Pool] : n \in 0..MaxMsgs}

\* the worker threads of the pool
Workers == {"w1", "w2"}

\* the orders in which the accumulators of the workers can be reduced
Orders == {o \in [1..Cardinality(Workers) -> Workers] : \A i, j \in DOMAIN o : o[i] = o[j] => i = j}

\* "!\"#$%&'()*+,-./:;<=>?@[\\]^_`{|}~"
Punctuation == {<<b>> : b \in (33..47) \cup (58..64) \cup (91..96) \cup (123..126)}

\* the two tokenizers of parse
TokenizerA == Tokenizer_new(parser)
TokenizerB == new_with_symbols(TokenizerA, Punctuation)

None == <<>>
Some(x) == <<x>>

\* the values with_threshold is called with: -1/2, 0, 1/2, 1, 3/2
ThresholdValues == {<<0 - 1, 2>>, <<0, 1>>, <<1, 2>>, <<1, 1>>, <<3, 2>>}

\* the parsers the builder makes before with_threshold
ParseParsers ==
  {[Parser_new EXCEPT !.special_whites = sp[1], !.special_blacks = sp[2],
                      !.compute_templates = ct, !.compute_mask = cm] :
     sp \in {<<<<>>, <<>>>>, <<<<Lit(Ch1)>>, <<Lit(ChB)>>>>},
     ct \in BOOLEAN, cm \in BOOLEAN}

Init ==
  /\ messages \in Corpora
  /\ parser \in ParseParsers
  /\ pc = "with_threshold"
  /\ next_idx = 0
  /\ accs = [w \in Workers |-> EmptyRecord]
  /\ idep = EmptyRecord
  /\ groups = EmptyMap
  /\ iterated = {}
  /\ clus = <<>>
  /\ temps = <<>>
  /\ masks = EmptyMap
  /\ regex_idx = 1
  /\ pre_toks = <<>>
  /\ tokens = <<>>
  /\ common_slices = {}
  /\ msk_vec = <<>>

\* Parser::with_threshold, the last call of the builder chain before parse
WithThreshold ==
  /\ pc = "with_threshold"
  /\ \E value \in ThresholdValues :
       LET r == with_threshold(parser, value) IN
       IF r.ok
       THEN /\ parser' = r.parser
            /\ pc' = "record_fold"
       ELSE /\ pc' = "assert_failed"
            /\ UNCHANGED parser
  /\ UNCHANGED <<messages, tokvars, parsevars>>

\* TokenRecord::new, fold_with: worker w takes the next message
RecordFold(w) ==
  /\ pc = "record_fold"
  /\ next_idx < Len(messages)
  /\ LET r == tokenize(TokenizerA, messages[next_idx + 1]) IN
     IF r.ok
     THEN /\ accs' = [accs EXCEPT ![w] = record_fold(parser, @, r.toks)]
          /\ next_idx' = next_idx + 1
          /\ pc' = pc
     ELSE /\ pc' = "panic"
          /\ UNCHANGED <<accs, next_idx>>
  /\ UNCHANGED <<messages, parser, tokvars, idep, groups, iterated, clus, temps, masks>>

RECURSIVE reduce_records(_, _, _)
reduce_records(as, order, acc) ==
  IF order = <<>> THEN acc
  ELSE reduce_records(as, Tail(order), record_reduce(acc, as[Head(order)]))

\* TokenRecord::new, reduce: the accumulators merged pairwise, in some order
RecordReduce ==
  /\ pc = "record_fold"
  /\ next_idx = Len(messages)
  /\ \E order \in Orders : idep' = reduce_records(accs, order, EmptyRecord)
  /\ pc' = "group_fold"
  /\ next_idx' = 0
  /\ accs' = [w \in Workers |-> EmptyMap]
  /\ UNCHANGED <<messages, parser, tokvars, groups, iterated, clus, temps, masks>>

\* group_by_anchor_tokens, map and fold_with: worker w takes the next message
GroupFold(w) ==
  /\ pc = "group_fold"
  /\ next_idx < Len(messages)
  /\ LET r == tokenize(TokenizerA, messages[next_idx + 1]) IN
     IF r.ok
     THEN /\ accs' = [accs EXCEPT ![w] =
                        group_fold(@, next_idx, anchor_tokens(idep, parser.threshold, r.toks))]
          /\ next_idx' = next_idx + 1
          /\ pc' = pc
     ELSE /\ pc' = "panic"
          /\ UNCHANGED <<accs, next_idx>>
  /\ UNCHANGED <<messages, parser, tokvars, idep, groups, iterated, clus, temps, masks>>

\* faulty variant: the merged map always has an entry for the empty anchor set
reduce_groups_phantom(as, order, acc) ==
  LET m == group_reduce(group_reduce(acc, as[order[1]]), as[order[2]])
  IN [k \in DOMAIN m \cup {{}} |-> IF k \in DOMAIN m THEN m[k] ELSE {}]

RECURSIVE reduce_groups(_, _, _)
reduce_groups(as, order, acc) ==
  IF order = <<>> THEN acc
  ELSE reduce_groups(as, Tail(order), group_reduce(acc, as[Head(order)]))

\* group_by_anchor_tokens, reduce, which consumes the accumulators; then parse
\* allocates clus, temps, masks
GroupReduce ==
  /\ pc = "group_fold"
  /\ next_idx = Len(messages)
  /\ \E order \in Orders :
       LET cmap == reduce_groups(accs, order, EmptyMap) IN
       /\ groups' = cmap
       /\ temps' = IF parser.compute_templates
                   THEN [k \in 1..Cardinality(DOMAIN cmap) |-> {}] ELSE <<>>
  /\ clus' = [k \in 1..Len(messages) |-> None]
  /\ masks' = EmptyMap
  /\ iterated' = {}
  /\ accs' = [w \in Workers |-> EmptyMap]
  /\ pc' = "for_each"
  /\ UNCHANGED <<messages, parser, tokvars, next_idx, idep>>

\* the token lists, under tokenizer B, of the messages with the indices of
\* `indices` in ascending order; <<>> in place of a list when tokenize panics
group_tokens(indices) ==
  LET ids == Asc(indices) IN
  [k \in 1..Len(ids) |-> tokenize(TokenizerB, messages[ids[k] + 1])]

\* HashMap::extend
extend(map, other) ==
  [k \in DOMAIN map \cup DOMAIN other |-> IF k \in DOMAIN other THEN other[k] ELSE map[k]]

\* parameter_masks of the messages with the indices of `indices`
parameter_masks(indices, tokss, common) ==
  LET ids == Asc(indices) IN
  [m \in {messages[i + 1] : i \in indices} |->
     LET k == CHOOSE j \in 1..Len(ids) : messages[ids[j] + 1] = m
     IN message_mask(tokss[k], common)]

\* faulty variant: the entries are numbered before the empty one is filtered out
enumerate_before_filter(yielded) == Cardinality(yielded)

\* .filter(non-empty).enumerate(): the number the closure gets, the entries
\* of `yielded` having come out of the map before
enumerate_cid(yielded) == Cardinality(yielded \ {{}})

\* parse, the loop over the groups: the map yields its next entry, in no
\* particular order; the entry of the empty anchor set is filtered out, any
\* other one is numbered and handled by the closure
ForEachGroup ==
  /\ pc = "for_each"
  /\ \E anchor_toks \in DOMAIN groups \ iterated :
       LET indices == groups[anchor_toks]
           cid == enumerate_cid(iterated)
           rs == group_tokens(indices)
           tokss == [k \in DOMAIN rs |-> rs[k].toks]
       IN /\ iterated' = iterated \cup {anchor_toks}
          /\ IF anchor_toks = {}
             THEN UNCHANGED <<pc, clus, temps, masks>>
             ELSE IF (parser.compute_templates \/ parser.compute_mask)
                     /\ \E k \in DOMAIN rs : ~rs[k].ok
             THEN /\ pc' = "panic"
                  /\ UNCHANGED <<clus, temps, masks>>
             ELSE /\ pc' = pc
                  /\ \E stok \in shared_slices_any(parser, tokss) :
                       /\ temps' = IF parser.compute_templates
                                   THEN [temps EXCEPT ![cid + 1] = templates(tokss, stok)]
                                   ELSE temps
                       /\ masks' = IF parser.compute_mask
                                   THEN extend(masks, parameter_masks(indices, tokss, stok))
                                   ELSE masks
                  /\ clus' = [k \in DOMAIN clus |-> IF k - 1 \in indices THEN Some(cid) ELSE clus[k]]
  /\ UNCHANGED <<messages, parser, tokvars, next_idx, accs, idep, groups>>

\* parse returns (clus, temps, masks)
Return ==
  /\ pc = "for_each"
  /\ iterated = DOMAIN groups
  /\ pc' = "done"
  /\ UNCHANGED <<messages, parser, tokvars, parsevars>>

Next ==
  \/ WithThreshold
  \/ \E w \in Workers : RecordFold(w)
  \/ RecordReduce
  \/ \E w \in Workers : GroupFold(w)
  \/ GroupReduce
  \/ ForEachGroup
  \/ Return

Spec == Init /\ [][Next]_vars

\* ============================================================ TrivialSpec
\* Parser::parse as tests::trivial_test calls it: the default parser with
\* templates and masks, on the corpus of the test.
ChC == <<99>>
ChD == <<100>>
ChX == <<120>>
Ch2 == <<50>>
Ch3 == <<51>>
Ch4 == <<52>>

\* "a x1 x2 b", "a x2 b", "a x3 b", "a x4 b", "c x1 d", "c x2 d", "c x3 d", "c x4 d"
TrivialMsgs ==
  << ChA \o ChSp \o ChX \o Ch1 \o ChSp \o ChX \o Ch2 \o ChSp \o ChB,
     ChA \o ChSp \o ChX \o Ch2 \o ChSp \o ChB,
     ChA \o ChSp \o ChX \o Ch3 \o ChSp \o ChB,
     ChA \o ChSp \o ChX \o Ch4 \o ChSp \o ChB,
     ChC \o ChSp \o ChX \o Ch1 \o ChSp \o ChD,
     ChC \o ChSp \o ChX \o Ch2 \o ChSp \o ChD,
     ChC \o ChSp \o ChX \o Ch3 \o ChSp \o ChD,
     ChC \o ChSp \o ChX \o Ch4 \o ChSp \o ChD >>

TrivialInit ==
  /\ messages = TrivialMsgs
  /\ parser = [Parser_new EXCEPT !.compute_templates = TRUE, !.compute_mask = TRUE]
  /\ pc = "record_fold"
  /\ next_idx = 0
  /\ accs = [w \in Workers |-> EmptyRecord]
  /\ idep = EmptyRecord
  /\ groups = EmptyMap
  /\ iterated = {}
  /\ clus = <<>>
  /\ temps = <<>>
  /\ masks = EmptyMap
  /\ regex_idx = 1
  /\ pre_toks = <<>>
  /\ tokens = <<>>
  /\ common_slices = {}
  /\ msk_vec = <<>>

TrivialNext ==
  \/ \E w \in Workers : RecordFold(w)
  \/ RecordReduce
  \/ \E w \in Workers : GroupFold(w)
  \/ GroupReduce
  \/ ForEachGroup
  \/ Return

TrivialSpec == TrivialInit /\ [][TrivialNext]_vars

\* ================================================================ claims
\* ---- tokenizer (TokSpec)
Msg == messages[1]

\* C1: the tokens tokenize returns are consecutive slices of the message, the
\* first at offset 0 and the last ending at its end, so they are in input
\* order and cover every byte once, and their texts concatenated are the
\* message
C1_RoundTrip ==
  pc \in {"tokenized", "masked"} =>
    /\ Concat([k \in 1..Len(tokens) |-> as_str(tokens[k])]) = Msg
    /\ \A k \in 1..Len(tokens) :
         /\ tokens[k].start = (IF k = 1 THEN 0 ELSE tokens[k - 1].start + Len(tokens[k - 1].slice))
         /\ as_str(tokens[k]) = Slice(Msg, tokens[k].start, tokens[k].start + Len(tokens[k].slice))
    /\ (tokens = <<>> => Msg = <<>>)
    /\ (tokens # <<>> => tokens[Len(tokens)].start + Len(tokens[Len(tokens)].slice) = Len(Msg))

\* a message of a special token, a separator and a multi-byte word, tokenized
C1_Witness ==
  /\ pc = "tokenized"
  /\ Len(tokens) >= 3
  /\ \E k \in 1..Len(tokens) : tokens[k].variant \in {"SpecialWhite", "SpecialBlack"}
  /\ \E k \in 1..Len(tokens) : tokens[k].variant \in {"Whitespace", "Symbolic"}
  /\ \E k \in 1..Len(tokens) : tokens[k].variant = "Alphabetic" /\ Len(tokens[k].slice) > 1

\* C2: tokenize never panics, whatever the message and the symbol set
C2_NeverPanics == pc # "panic"

\* C3: the mask parameter_masks makes for a message has one byte per byte of
\* the message, each '0' or '1'
C3_MaskShape ==
  pc = "masked" =>
    /\ Len(msk_vec) = Len(Msg)
    /\ \A k \in 1..Len(msk_vec) : msk_vec[k] \in {"0", "1"}

\* a mask with both kinds of bytes, of a message with a multi-byte character
C3_Witness ==
  /\ pc = "masked"
  /\ \E k \in 1..Len(tokens) : Len(chars(tokens[k].slice)) < Len(tokens[k].slice)
  /\ \E k \in 1..Len(msk_vec) : msk_vec[k] = "0"
  /\ \E k \in 1..Len(msk_vec) : msk_vec[k] = "1"

\* the rendering of a token list in which every maximal run of tokens whose
\* text is not shared becomes one placeholder
RECURSIVE RunsCollapsed(_, _, _)
RunsCollapsed(toks, k, common) ==
  IF k > Len(toks) THEN <<>>
  ELSE IF as_str(toks[k]) \in common THEN as_str(toks[k]) \o RunsCollapsed(toks, k + 1, common)
  ELSE IF k > 1 /\ as_str(toks[k - 1]) \notin common THEN RunsCollapsed(toks, k + 1, common)
  ELSE Placeholder \o RunsCollapsed(toks, k + 1, common)

\* C18: the template templates renders of a message has one placeholder for
\* every maximal run of consecutive tokens whose text is not shared
C18_RunsCollapsed ==
  pc = "rendered" => temps[1] = {RunsCollapsed(tokens, 1, common_slices)}

\* ---- the mask of a message (TokSpec)
Words == {"Alphabetic", "Numeric", "Impure"}

\* the latch as the tokens before the k-th leave it: set by the last word
\* with an unshared text, unless a Whitespace token came after it
RECURSIVE LatchBefore(_, _, _)
LatchBefore(toks, k, common) ==
  IF k <= 1 THEN FALSE
  ELSE IF toks[k - 1].variant = "Whitespace" THEN FALSE
  ELSE IF toks[k - 1].variant \in Words /\ toks[k - 1].slice \notin common THEN TRUE
  ELSE LatchBefore(toks, k - 1, common)

\* the bytes of the mask for the k-th token
MaskOf(k) == SubSeq(msk_vec, tokens[k].start + 1, tokens[k].start + Len(tokens[k].slice))

\* the token after the k-th is a Whitespace or a Symbolic token or there is none
NextCloses(k) == k = Len(tokens) \/ tokens[k + 1].variant \in {"Whitespace", "Symbolic"}

AllOf(ch, k) == [j \in 1..Len(tokens[k].slice) |-> ch]

\* C23, as claimed: a Symbolic token is masked '0' when its text is shared and
\* the next token closes it; otherwise '1' with the latch set and '0' with the
\* latch unset, also when its text is not shared
C23_SymbolByLatch ==
  pc = "masked" =>
    \A k \in 1..Len(tokens) :
      tokens[k].variant = "Symbolic" =>
        MaskOf(k) = (IF tokens[k].slice \in common_slices /\ NextCloses(k) THEN <<"0">>
                     ELSE IF LatchBefore(tokens, k, common_slices) THEN <<"1">>
                     ELSE <<"0">>)

\* C23, amended: a Symbolic token whose text is not shared is masked '1'; one
\* whose text is shared is masked '0' when the next token closes it, and
\* otherwise '1' with the latch set and '0' with the latch unset
C23_UnsharedSymbolIsOne ==
  pc = "masked" =>
    \A k \in 1..Len(tokens) :
      tokens[k].variant = "Symbolic" =>
        MaskOf(k) = (IF tokens[k].slice \notin common_slices THEN <<"1">>
                     ELSE IF NextCloses(k) THEN <<"0">>
                     ELSE IF LatchBefore(tokens, k, common_slices) THEN <<"1">>
                     ELSE <<"0">>)

\* a masked message with a Symbolic token of an unshared text met with the
\* latch unset
C23_Witness ==
  /\ pc = "masked"
  /\ \E k \in 1..Len(tokens) :
       /\ tokens[k].variant = "Symbolic"
       /\ tokens[k].slice \notin common_slices
       /\ ~LatchBefore(tokens, k, common_slices)
       /\ MaskOf(k) = <<"1">>

\* C24: the latch is unset at the start, set by a word (Alphabetic, Numeric,
\* Impure) with an unshared text, cleared by a Whitespace token and by nothing
\* else: a Whitespace token is masked '0', a SpecialWhite token all '0', a
\* SpecialBlack token all '1', and a word all '1' when its text is unshared or
\* a word with an unshared text precedes it with no Whitespace token between,
\* all '0' otherwise
C24_LatchUntilWhitespace ==
  pc = "masked" =>
    \A k \in 1..Len(tokens) :
      /\ tokens[k].variant = "Whitespace" => MaskOf(k) = <<"0">>
      /\ tokens[k].variant = "SpecialWhite" => MaskOf(k) = AllOf("0", k)
      /\ tokens[k].variant = "SpecialBlack" => MaskOf(k) = AllOf("1", k)
      /\ tokens[k].variant \in Words =>
           MaskOf(k) = (IF tokens[k].slice \notin common_slices
                           \/ LatchBefore(tokens, k, common_slices)
                        THEN AllOf("1", k) ELSE AllOf("0", k))

\* a masked message in which a word with a shared text is masked '1' because
\* a word with an unshared text and then a Symbolic token precede it
C24_Witness ==
  /\ pc = "masked"
  /\ \E k \in 3..Len(tokens) :
       /\ tokens[k].variant \in Words
       /\ tokens[k].slice \in common_slices
       /\ tokens[k - 1].variant = "Symbolic"
       /\ tokens[k - 2].variant \in Words
       /\ MaskOf(k) = AllOf("1", k)

\* ---- parse (Spec)
\* the anchor set of message i (from 0) under the record and the threshold
AnchorSet(i) ==
  anchor_tokens(idep, parser.threshold, tokenize(TokenizerA, messages[i + 1]).toks)

Indices == 0..(Len(messages) - 1)

\* K: the number of distinct non-empty anchor sets of the corpus
NumClusters == Cardinality({AnchorSet(i) : i \in Indices} \ {{}})

RecordBuilt == pc \in {"group_fold", "for_each", "done"}

\* C4: clusters has one entry per message, None exactly for the messages with
\* an empty anchor set, otherwise Some(cid) with 0 <= cid < K, and every id
\* below K is the id of some message
C4_ClusterIds ==
  pc = "done" =>
    LET anchors == [i \in Indices |-> AnchorSet(i)]
        K == Cardinality({anchors[i] : i \in Indices} \ {{}})
    IN
    /\ Len(clus) = Len(messages)
    /\ \A i \in Indices : (clus[i + 1] = None) <=> (anchors[i] = {})
    /\ \A i \in Indices : clus[i + 1] # None => clus[i + 1][1] \in 0..(K - 1)
    /\ \A c \in 0..(K - 1) : \E i \in Indices : clus[i + 1] = Some(c)

\* a corpus with a message without anchors and a clustered one
C4_Witness ==
  /\ pc = "done"
  /\ \E i \in Indices : clus[i + 1] = None
  /\ \E i \in Indices : clus[i + 1] = Some(0)

\* C5: two messages with non-empty anchor sets get the same cluster id
\* exactly when their anchor sets are the same set of (variant, text) tokens
C5_SameClusterIffSameAnchors ==
  pc = "done" =>
    LET anchors == [i \in Indices |-> AnchorSet(i)] IN
    \A i, j \in Indices :
      (anchors[i] # {} /\ anchors[j] # {}) =>
        ((clus[i + 1] = clus[j + 1]) <=> (anchors[i] = anchors[j]))

\* two different messages in one cluster
C5_Witness ==
  /\ pc = "done"
  /\ \E i, j \in Indices :
       /\ messages[i + 1] # messages[j + 1]
       /\ clus[i + 1] # None
       /\ clus[i + 1] = clus[j + 1]

\* C6: with templates requested, templates has exactly K entries
C6_TemplatesLength ==
  (pc = "done" /\ parser.compute_templates) => Len(temps) = NumClusters

\* the messages of cluster cid, their token lists under tokenizer B and the
\* shared slices of the cluster
ClusterOf(cid) == {i \in Indices : clus[i + 1] = Some(cid)}
TokensB(i) == tokenize(TokenizerB, messages[i + 1]).toks
ClusterShared(cid) ==
  LET ids == Asc(ClusterOf(cid)) IN shared_slices(parser, [k \in 1..Len(ids) |-> TokensB(ids[k])])
Rendering(i, cid) == render(TokensB(i), 1, ClusterShared(cid))

\* C7: with templates requested, templates[cid] holds the rendering of every
\* message of cluster cid against the shared slices of the cluster, and
\* nothing else
C7_TemplatesOfCluster ==
  (pc = "done" /\ parser.compute_templates) =>
    \A i \in Indices :
      clus[i + 1] # None =>
        LET cid == clus[i + 1][1] IN
        /\ Rendering(i, cid) \in temps[cid + 1]
        /\ \A t \in temps[cid + 1] : \E j \in ClusterOf(cid) : t = Rendering(j, cid)

\* parse has returned templates, and some cluster's messages render to two
\* different templates
C7_Witness ==
  /\ pc = "done"
  /\ parser.compute_templates
  /\ \E i \in Indices : clus[i + 1] # None /\ Cardinality(temps[clus[i + 1][1] + 1]) = 2

\* C8: with masks requested, a message without cluster id has a mask, all '0'
\* and as long as the message
C8_MaskOfUnclustered ==
  (pc = "done" /\ parser.compute_mask) =>
    \A i \in Indices :
      clus[i + 1] = None =>
        /\ messages[i + 1] \in DOMAIN masks
        /\ masks[messages[i + 1]] = Repeat("0", Len(messages[i + 1]))

\* C9, as claimed: every recorded text depends on itself with dependency 1
C9_SelfDependencyIsOne ==
  RecordBuilt =>
    \A a \in DOMAIN idep.soc :
      /\ dependency(idep, a, a) # <<>>
      /\ dependency(idep, a, a)[1] = dependency(idep, a, a)[2]

\* C9, amended: the pair map has no key of twice the same text, so the
\* dependency of a recorded text on itself is undefined (None)
C9_SelfDependencyUndefined ==
  RecordBuilt =>
    /\ \A pr \in DOMAIN idep.poc : pr[1] # pr[2]
    /\ \A a \in DOMAIN idep.soc : dependency(idep, a, a) = <<>>

\* a record with a text that is counted in several messages and in a pair
C9_Witness ==
  /\ RecordBuilt
  /\ \E a \in DOMAIN idep.soc : idep.soc[a] > 1
  /\ DOMAIN idep.poc # {}

ConsistentCounts(rec) ==
  \A pr \in DOMAIN rec.poc :
    /\ pr[1] \in DOMAIN rec.soc
    /\ pr[2] \in DOMAIN rec.soc
    /\ rec.soc[pr[1]] >= rec.poc[pr]
    /\ rec.soc[pr[2]] >= rec.poc[pr]

DependencyInUnitInterval(rec) ==
  \A a, b \in DOMAIN rec.soc :
    LET d == dependency(rec, a, b) IN
    d # <<>> => (0 <= d[1] /\ d[1] <= d[2] /\ d[2] > 0)

\* C10: in the record TokenRecord::new builds, both texts of every pair key
\* are single keys counted at least as often as the pair, so every defined
\* dependency is a fraction between 0 and 1
C10_PairBelowSingle ==
  RecordBuilt => (ConsistentCounts(idep) /\ DependencyInUnitInterval(idep))

\* a record in which a pair is counted less often than one of its texts
C10_Witness ==
  /\ RecordBuilt
  /\ \E pr \in DOMAIN idep.poc : idep.soc[pr[1]] > idep.poc[pr] \/ idep.soc[pr[2]] > idep.poc[pr]

\* TokenRecord::new has just returned the record
RecordReturned == pc = "group_fold" /\ next_idx = 0

\* the tokens of message i (from 0) under the tokenizer of the record
TokensA(i) == tokenize(TokenizerA, messages[i + 1]).toks

\* the positions of the token list toks at which a filter-passing token has
\* the text t
Occurrences(toks, t) ==
  {k \in 1..Len(toks) : token_filter(parser, toks[k]) /\ as_str(toks[k]) = t}

\* the texts of the filter-passing tokens of the token list toks
PassingTexts(toks) ==
  {as_str(toks[k]) : k \in {j \in 1..Len(toks) : token_filter(parser, toks[j])}}

\* C11: the record counts messages, not occurrences: single has exactly the
\* texts of the filter-passing tokens of the corpus, each with the number of
\* messages it occurs in, and pair has exactly the pairs of distinct texts that
\* occur together in some message, each with the number of such messages
C11_CountsPerMessage ==
  RecordReturned =>
    LET texts == [i \in Indices |-> PassingTexts(TokensA(i))]
        all == UNION {texts[i] : i \in Indices}
        with(t) == {i \in Indices : t \in texts[i]}
    IN
    /\ DOMAIN idep.soc = all
    /\ \A t \in all : idep.soc[t] = Cardinality(with(t))
    /\ \A a, b \in all :
         a # b =>
           LET n == Cardinality(with(a) \cap with(b)) IN
           IF n = 0 THEN TokenPair_with(a, b) \notin DOMAIN idep.poc
           ELSE /\ TokenPair_with(a, b) \in DOMAIN idep.poc
                /\ idep.poc[TokenPair_with(a, b)] = n
    /\ \A pr \in DOMAIN idep.poc : pr[1] \in all /\ pr[2] \in all /\ pr[1] # pr[2]

\* a record of a corpus in which a text occurs twice in one message, and in
\* which two texts depend on each other to different degrees
C11_Witness ==
  /\ RecordReturned
  /\ \E i \in Indices : \E t \in DOMAIN idep.soc : Cardinality(Occurrences(TokensA(i), t)) > 1
  /\ \E a, b \in DOMAIN idep.soc :
       LET d1 == dependency(idep, a, b)
           d2 == dependency(idep, b, a)
       IN d1 # <<>> /\ d2 # <<>> /\ d1[1] * d2[2] # d2[1] * d1[2]

\* ---- one run against the run of a single worker
\* the record a single worker builds, taking the messages from i on in order
RECURSIVE SeqRecord(_, _)
SeqRecord(i, acc) ==
  IF i >= Len(messages) THEN acc
  ELSE SeqRecord(i + 1, record_fold(parser, acc, TokensA(i)))

\* the anchor sets of the messages under that record, by message index
SeqAnchors ==
  LET rec == SeqRecord(0, EmptyRecord)
  IN [i \in Indices |-> anchor_tokens(rec, parser.threshold, TokensA(i))]

\* the clusters a map of anchor sets makes, as sets of message indices
PartitionOf(anchors) ==
  {{j \in Indices : anchors[j] = anchors[i]} : i \in {k \in Indices : anchors[k] # {}}}

\* the token lists under tokenizer B of the messages of the index set B
TokensOf(B) == LET ids == Asc(B) IN [k \in 1..Len(ids) |-> TokensB(ids[k])]

SeqTemplates(B) == templates(TokensOf(B), shared_slices(parser, TokensOf(B)))

SeqMask(i, B) == message_mask(TokensB(i), shared_slices(parser, TokensOf(B)))

\* the cluster ids parse has handed out
UsedIds == {clus[i + 1][1] : i \in {k \in Indices : clus[k + 1] # None}}

\* C12: whatever the split of the messages among the workers, the merge order
\* and the iteration order of the group map, a run that returns has the
\* clusters, the template set of every cluster and the masks of the run of a
\* single worker, the cluster ids apart; and a run fails only on a corpus with a
\* message on which tokenize fails, on which no run returns
C12_SameResultWhateverSchedule ==
  /\ pc = "panic" => \E i \in Indices : ~tokenize(TokenizerA, messages[i + 1]).ok
  /\ pc = "done" =>
       LET anchors == SeqAnchors
           part == PartitionOf(anchors)
       IN
       /\ \A i \in Indices : tokenize(TokenizerA, messages[i + 1]).ok
       /\ {ClusterOf(c) : c \in UsedIds} = part
       /\ \A i \in Indices : clus[i + 1] = None <=> anchors[i] = {}
       /\ IF parser.compute_templates
          THEN /\ Len(temps) = Cardinality(part)
                                + (IF \E i \in Indices : anchors[i] = {} THEN 1 ELSE 0)
               /\ \A c \in UsedIds : temps[c + 1] = SeqTemplates(ClusterOf(c))
               /\ \A k \in 1..Len(temps) : (k - 1) \notin UsedIds => temps[k] = {}
          ELSE temps = <<>>
       /\ IF parser.compute_mask
          THEN /\ DOMAIN masks = {messages[i + 1] : i \in UNION part}
               /\ \A B \in part : \A i \in B : masks[messages[i + 1]] = SeqMask(i, B)
          ELSE masks = EmptyMap

\* a returned run with templates and masks of two different messages in
\* different clusters, the second with the id 0: the group map was built by
\* two workers or one and iterated in one of its two orders
C12_Witness ==
  /\ pc = "done"
  /\ parser.compute_templates /\ parser.compute_mask
  /\ Len(messages) = 2 /\ messages[1] # messages[2]
  /\ clus = <<Some(1), Some(0)>>

\* ---- thresholds
\* the values with_threshold accepts, and their order
UnitThresholds == {t \in ThresholdValues : with_threshold(Parser_new, t).ok}
Leq(t1, t2) == t1[1] * t2[2] <= t2[1] * t1[2]

\* the number of clusters parse makes of the corpus at the threshold t
NumClustersAt(t) ==
  Cardinality({anchor_tokens(idep, t, TokensA(i)) : i \in Indices} \ {{}})

\* C13: parse has made no more clusters at its threshold than it makes of the
\* same corpus at any higher threshold
C13_ClusterCountMonotone ==
  pc = "done" =>
    \A t2 \in UnitThresholds :
      Leq(parser.threshold, t2) => Cardinality(UsedIds) <= NumClustersAt(t2)

\* the interdependency graph of the token list toks at the threshold t, and
\* the set of the strongly-connected components kosaraju_scc lists of a graph
GraphOf(toks, t) == build_graph(idep, t, select_tokens(idep, toks, 1))
GraphAt(i, t) == GraphOf(TokensA(i), t)
SccSet(g) == LET sccs == kosaraju_scc(g) IN {sccs[k] : k \in 1..Len(sccs)}
SccsAt(i, t) == SccSet(GraphAt(i, t))

\* C14: for every message and thresholds t1 <= t2, every edge of the graph at
\* t2 is an edge of the graph at t1, and every strongly-connected component at
\* t2 lies within one at t1
C14_EdgesAndSccsShrink ==
  RecordReturned =>
    \A i \in Indices :
      LET toks == TokensA(i)
          g == [t \in UnitThresholds |-> GraphOf(toks, t)]
          sccs == [t \in UnitThresholds |-> SccSet(g[t])]
      IN \A t1, t2 \in UnitThresholds :
           Leq(t1, t2) =>
             /\ g[t2].nodes = g[t1].nodes
             /\ g[t2].edges \subseteq g[t1].edges
             /\ \A s2 \in sccs[t2] : \E s1 \in sccs[t1] : s2 \subseteq s1

\* a message whose graph loses an edge, and with it a component of two nodes,
\* when the threshold goes from 0 to 1/2
C14_Witness ==
  /\ RecordReturned
  /\ \E i \in Indices :
       /\ GraphAt(i, <<1, 2>>).edges # GraphAt(i, <<0, 1>>).edges
       /\ GraphAt(i, <<1, 2>>).edges # {}
       /\ \E s1 \in SccsAt(i, <<0, 1>>) : Cardinality(s1) > 1 /\ s1 \notin SccsAt(i, <<1, 2>>)

\* ---- the corpus of trivial_test (TrivialSpec)
\* "a <*> b", "a <*> <*> b", "c <*> d"
ExpectedTemplates ==
  { ChA \o ChSp \o Placeholder \o ChSp \o ChB,
    ChA \o ChSp \o Placeholder \o ChSp \o Placeholder \o ChSp \o ChB,
    ChC \o ChSp \o Placeholder \o ChSp \o ChD }

\* "001101100" for the first message, "001100" for the seven others
ExpectedMask(i) ==
  IF i = 0 THEN <<"0", "0", "1", "1", "0", "1", "1", "0", "0">>
  ELSE <<"0", "0", "1", "1", "0", "0">>

\* C15: on the corpus of trivial_test the default parser never fails and
\* returns one cluster id for the messages 0..3 and another one for the messages
\* 4..7, template sets whose union is the three expected templates, and the
\* expected mask for each of the eight messages and for nothing else
C15_TrivialTest ==
  /\ pc # "panic"
  /\ pc = "done" =>
       /\ \A i \in Indices : clus[i + 1] # None
       /\ \A i, j \in Indices : (clus[i + 1] = clus[j + 1]) <=> ((i <= 3) <=> (j <= 3))
       /\ UNION {temps[k] : k \in 1..Len(temps)} = ExpectedTemplates
       /\ DOMAIN masks = {messages[i + 1] : i \in Indices}
       /\ \A i \in Indices : masks[messages[i + 1]] = ExpectedMask(i)

\* the run on the corpus of the test has returned, the cluster of the
\* messages 4..7 having come first out of the group map
C15_Witness ==
  /\ pc = "done"
  /\ messages = TrivialMsgs
  /\ clus[1] = Some(1) /\ clus[8] = Some(0)
  /\ Len(clus) = 8 /\ Len(temps) = 2

\* ---- the empty corpus
\* C16: parse on an empty corpus does not fail, is never stuck before it
\* returns, and returns empty clusters, empty templates and empty masks
C16_EmptyCorpus ==
  messages = <<>> =>
    /\ pc # "panic"
    /\ pc \in {"record_fold", "group_fold", "for_each"} => ENABLED Next
    /\ pc = "done" => (clus = <<>> /\ temps = <<>> /\ masks = EmptyMap)

\* parse has returned from an empty corpus, templates and masks requested
C16_Witness ==
  /\ pc = "done"
  /\ messages = <<>>
  /\ parser.compute_templates /\ parser.compute_mask

\* ---- the threshold of the builder
\* the fraction v is below 0, above 1
BelowZero(v) == v[1] < 0
AboveOne(v) == v[1] > v[2]

\* the settings of a parser other than its threshold
OtherSettings(p) == [f \in DOMAIN p \ {"threshold"} |-> p[f]]

\* C17: with_threshold fails for every value below 0 or above 1 and returns no
\* parser; for every other value, 0 and 1 among them, it returns the parser
\* with that threshold and its other settings as they were; so parse only ever
\* runs with a threshold between 0 and 1
C17_ThresholdRange ==
  /\ pc = "with_threshold" =>
       \A v \in ThresholdValues :
         LET r == with_threshold(parser, v) IN
         IF BelowZero(v) \/ AboveOne(v) THEN ~r.ok
         ELSE /\ r.ok
              /\ r.parser.threshold = v
              /\ OtherSettings(r.parser) = OtherSettings(parser)
  /\ pc = "assert_failed" => (next_idx = 0 /\ idep = EmptyRecord /\ clus = <<>>)
  /\ pc \notin {"with_threshold", "assert_failed"} =>
       /\ ~BelowZero(parser.threshold) /\ ~AboveOne(parser.threshold)
       /\ \E p \in ParseParsers : OtherSettings(parser) = OtherSettings(p)

\* with_threshold has returned a parser with the upper bound 1 as threshold
C17_Witness ==
  /\ pc = "record_fold"
  /\ next_idx = 0
  /\ parser.threshold = <<1, 1>>
  /\ \E v \in ThresholdValues : AboveOne(v)
  /\ \E v \in ThresholdValues : BelowZero(v)

\* ---- the anchor nodes
\* the positions in the list sccs of the components of maximum size
Largest(sccs) ==
  {k \in 1..Len(sccs) : \A j \in 1..Len(sccs) : Cardinality(sccs[j]) <= Cardinality(sccs[k])}

\* the weights of the nodes of the component c of the graph g
Weights(g, c) == {TokenKey(g.nodes[v]) : v \in c}

Min(S) == CHOOSE x \in S : \A y \in S : x <= y
Max(S) == CHOOSE x \in S : \A y \in S : x >= y

\* the graph of message i at the threshold t has several components of
\* maximum size
SeveralLargest(i, t) == Cardinality(Largest(kosaraju_scc(GraphAt(i, t)))) > 1

\* C19, as claimed: among several components of maximum size anchor_nodes
\* selects the one that comes first in the list of kosaraju_scc
C19_FirstOfLargest ==
  RecordReturned =>
    \A i \in Indices : \A t \in UnitThresholds :
      LET g == GraphAt(i, t)
          sccs == kosaraju_scc(g)
      IN Cardinality(Largest(sccs)) > 1 =>
           anchor_nodes(g) = Weights(g, sccs[Min(Largest(sccs))])

\* C19, amended: among several components of maximum size anchor_nodes selects
\* the one that comes last in the list of kosaraju_scc
C19_LastOfLargest ==
  RecordReturned =>
    \A i \in Indices : \A t \in UnitThresholds :
      LET g == GraphAt(i, t)
          sccs == kosaraju_scc(g)
      IN Cardinality(Largest(sccs)) > 1 =>
           anchor_nodes(g) = Weights(g, sccs[Max(Largest(sccs))])

\* a message whose graph at the threshold of the parser has several
\* components of maximum size
C19_Witness ==
  /\ RecordReturned
  /\ \E i \in Indices : SeveralLargest(i, parser.threshold)

\* the nodes of g that can be reached from the nodes of S
RECURSIVE Grow(_, _)
Grow(g, S) ==
  LET S2 == S \cup {m \in 1..Len(g.nodes) : \E f \in S : <<f, m>> \in g.edges}
  IN IF S2 = S THEN S ELSE Grow(g, S2)

\* the strongly-connected component of the node u of g
ComponentOf(g, u) == {v \in Grow(g, {u}) : u \in Grow(g, {v})}

\* C20: anchor_nodes returns the nodes of one strongly-connected component of
\* the graph, one that no other component is larger than, and returns nothing
\* only for a graph without nodes
C20_OneLargestComponent ==
  RecordReturned =>
    \A i \in Indices : \A t \in UnitThresholds :
      LET g == GraphAt(i, t)
          anchors == anchor_nodes(g)
      IN IF g.nodes = <<>> THEN anchors = {}
         ELSE /\ anchors # {}
              /\ \E u \in 1..Len(g.nodes) :
                   /\ anchors = Weights(g, ComponentOf(g, u))
                   /\ \A w \in 1..Len(g.nodes) :
                        Cardinality(ComponentOf(g, w)) <= Cardinality(ComponentOf(g, u))

\* a message whose graph at the threshold of the parser has a component of
\* two nodes, which anchor_nodes returns, and a smaller one
C20_Witness ==
  /\ RecordReturned
  /\ \E i \in Indices :
       LET g == GraphAt(i, parser.threshold) IN
       /\ Cardinality(anchor_nodes(g)) = 2
       /\ Len(g.nodes) = 3

\* ---- the edges of the graph
\* the distinct (variant, text) tokens of the token list toks whose text has
\* a recorded occurrence
Candidates(toks) ==
  {TokenKey(toks[k]) : k \in {j \in 1..Len(toks) : as_str(toks[j]) \in DOMAIN idep.soc}}

\* the dependency d is defined and strictly greater than the threshold t
DefinedAbove(d, t) == d # <<>> /\ d[1] * t[2] > t[1] * d[2]

\* the graph g is the interdependency graph of the token list toks at t
IsInterdependencyGraph(g, toks, t) ==
  /\ {g.nodes[k] : k \in 1..Len(g.nodes)} = Candidates(toks)
  /\ \A j, k \in 1..Len(g.nodes) : g.nodes[j] = g.nodes[k] => j = k
  /\ g.edges \subseteq (1..Len(g.nodes)) \X (1..Len(g.nodes))
  /\ \A u, v \in 1..Len(g.nodes) :
       <<u, v>> \in g.edges <=>
         (u # v /\ DefinedAbove(dependency(idep, as_str(g.nodes[u]), as_str(g.nodes[v])), t))

\* the tokens of all the messages of the corpus, one message after the other
CorpusTokens == Concat([k \in 1..Len(messages) |-> TokensA(k - 1)])

\* C21: the graph build_graph makes of the tokens of a message (and of the
\* tokens of the whole corpus, where texts meet that never occur together) has
\* the distinct tokens with a recorded text as nodes and an edge u -> v between
\* distinct nodes exactly when dependency(u, v) is defined and strictly above
\* the threshold
C21_EdgeIffDependencyAbove ==
  RecordReturned =>
    LET all == CorpusTokens IN
    \A t \in UnitThresholds :
      /\ \A i \in Indices :
           LET toks == TokensA(i) IN IsInterdependencyGraph(GraphOf(toks, t), toks, t)
      /\ IsInterdependencyGraph(GraphOf(all, t), all, t)

\* at the threshold of the parser the graph of a message has two nodes with a
\* dependency equal to the threshold and no edge for it, and two recorded
\* texts of the corpus have no recorded co-occurrence
C21_Witness ==
  /\ RecordReturned
  /\ \E i \in Indices :
       LET g == GraphAt(i, parser.threshold) IN
       \E u, v \in 1..Len(g.nodes) :
         LET d == dependency(idep, as_str(g.nodes[u]), as_str(g.nodes[v])) IN
         /\ u # v /\ d # <<>>
         /\ d[1] * parser.threshold[2] = parser.threshold[1] * d[2]
         /\ <<u, v>> \notin g.edges
         /\ <<v, u>> \in g.edges
  /\ \E a, b \in DOMAIN idep.soc : a # b /\ dependency(idep, a, b) = <<>>

\* ---- special tokens and anchors
\* the key of the group map that has the message i in its index set
GroupKeyOf(i) == CHOOSE key \in DOMAIN groups : i \in groups[key]

\* the tokens of the variant v in the token list toks
TokensOfVariant(toks, v) == {TokenKey(toks[k]) : k \in {j \in 1..Len(toks) : toks[j].variant = v}}

RECURSIVE SeqGroups(_, _)
SeqGroups(i, map) ==
  IF i >= Len(messages) THEN map
  ELSE SeqGroups(i + 1, group_fold(map, i, anchor_tokens(idep, parser.threshold, TokensA(i))))

\* group_by_anchor_tokens has just returned the group map
GroupsReturned == pc = "for_each" /\ iterated = {}

\* C25: whatever the split of the messages among the workers and the order of
\* the merges, the record has the counts, and the group map the entries, of a
\* sequential pass over the messages, and every message index is in exactly
\* one index set of the group map
C25_FoldReduceAsSequential ==
  /\ RecordReturned => idep = SeqRecord(0, EmptyRecord)
  /\ GroupsReturned =>
       /\ groups = SeqGroups(0, EmptyMap)
       /\ \A i \in Indices : Cardinality({key \in DOMAIN groups : i \in groups[key]}) = 1
       /\ UNION {groups[key] : key \in DOMAIN groups} = Indices

\* the group map of two messages with different anchor sets, built from a
\* record with a text counted in both messages
C25_Witness ==
  /\ GroupsReturned
  /\ Cardinality(DOMAIN groups) = 2
  /\ \E t \in DOMAIN idep.soc : idep.soc[t] = 2
  /\ DOMAIN idep.poc # {}

\* the variants whose texts shared_slices retains under the parser's flags
RetainedVariants ==
  {"SpecialWhite", "Whitespace", "Symbolic"}
    \cup (IF parser.filter_alphabetic THEN {"Alphabetic"} ELSE {})
    \cup (IF parser.filter_numeric THEN {"Numeric"} ELSE {})
    \cup (IF parser.filter_impure THEN {"Impure"} ELSE {})

\* the retained texts of a token list
RetainedTexts(toks) ==
  {as_str(toks[k]) : k \in {j \in 1..Len(toks) : toks[j].variant \in RetainedVariants}}

\* the texts retained in every one of the token lists
InEvery(tokss) ==
  {t \in UNION {RetainedTexts(tokss[k]) : k \in 1..Len(tokss)} :
     \A k \in 1..Len(tokss) : t \in RetainedTexts(tokss[k])}

\* C26: for every group of messages parse hands to shared_slices, the set
\* returned is the set of the texts retained in every message of the group
\* (SpecialWhite, Whitespace and Symbolic always, Alphabetic, Numeric and
\* Impure when their flag is on, SpecialBlack never), whatever way the
\* reduction goes; for no message at all it is the empty set
C26_SharedSlicesIsIntersection ==
  pc = "done" =>
    /\ shared_slices_any(parser, <<>>) = {{}}
    /\ \A key \in DOMAIN groups \ {{}} :
         LET rs == group_tokens(groups[key])
             tokss == [k \in DOMAIN rs |-> rs[k].toks]
         IN (\A k \in DOMAIN rs : rs[k].ok) =>
              shared_slices_any(parser, tokss) = {InEvery(tokss)}

\* a cluster of two messages was handled whose retained texts differ, some
\* of them shared and some not, and its template was computed
C26_Witness ==
  /\ pc = "done"
  /\ parser.compute_templates
  /\ \E key \in DOMAIN groups \ {{}} :
       LET rs == group_tokens(groups[key])
           tokss == [k \in DOMAIN rs |-> rs[k].toks]
       IN /\ Cardinality(groups[key]) = 2
          /\ \A k \in DOMAIN rs : rs[k].ok
          /\ RetainedTexts(tokss[1]) # RetainedTexts(tokss[2])
          /\ InEvery(tokss) # {}
          /\ InEvery(tokss) # RetainedTexts(tokss[1])
          /\ \E k \in DOMAIN temps : temps[k] # {}

SpecialKinds == {"SpecialWhite", "SpecialBlack"}

\* the byte offsets of the message a span covers
BytesOf(span) == span.start .. (span.start + Len(span.slice) - 1)

\* no byte of a SpecialWhite element of the list is in a SpecialBlack one;
\* label(x) is the label of the element x
Disjoint(list, label(_)) ==
  \A i, j \in 1..Len(list) :
    label(list[i]) = "SpecialWhite" /\ label(list[j]) = "SpecialBlack"
      => BytesOf(list[i]) \cap BytesOf(list[j]) = {}

KindOf(pt) == pt.kind
VariantOf(tok) == tok.variant

\* C27: in every step of pre_tokenize a span already labelled SpecialWhite or
\* SpecialBlack stays as it is, same bytes and same label; a special span of
\* the new list either was there before or lies inside a span that was
\* Unrefined; and no byte of a SpecialWhite span or token is part of a
\* SpecialBlack one
C27_SpecialSpansAreFinal ==
  [][(/\ \A k \in 1..Len(pre_toks) :
           pre_toks[k].kind \in SpecialKinds
             => \E j \in 1..Len(pre_toks') : pre_toks'[j] = pre_toks[k]
      /\ \A j \in 1..Len(pre_toks') :
           pre_toks'[j].kind \in SpecialKinds
             => \E k \in 1..Len(pre_toks) :
                  \/ pre_toks[k] = pre_toks'[j]
                  \/ /\ pre_toks[k].kind = "Unrefined"
                     /\ BytesOf(pre_toks'[j]) \subseteq BytesOf(pre_toks[k])
      /\ Disjoint(pre_toks', KindOf)
      /\ Disjoint(tokens', VariantOf))]_vars

\* the non-empty matches of a pattern in the whole message, as byte sets
MatchBytes(re) ==
  LET ms == find_iter(re, messages[1])
  IN {ms[k][1] .. (ms[k][2] - 1) : k \in 1..Len(ms)} \ {{}}

\* tokenize returned a SpecialWhite token and a SpecialBlack token, and a
\* blacklist pattern has a match in the whole message that overlaps the
\* SpecialWhite token
C27_Witness ==
  /\ pc = "tokenized"
  /\ \E i, j \in 1..Len(tokens) :
       /\ tokens[i].variant = "SpecialWhite"
       /\ tokens[j].variant = "SpecialBlack"
       /\ \E r \in 1..Len(parser.special_blacks) :
            \E m \in MatchBytes(parser.special_blacks[r]) : m \cap BytesOf(tokens[i]) # {}

\* ---- a corpus of one message
\* the number of clusters parse returned
ClustersReturned == Cardinality({clus[k] : k \in DOMAIN clus} \ {None})

\* the texts of the anchor set of message i in the group map
AnchorTexts(i) == {tok.slice : tok \in GroupKeyOf(i)}

SingleMessageParsed == pc = "done" /\ Len(messages) = 1

Refined == {k \in 1..Len(tokens) : tokens[k].variant \notin SpecialKinds}

\* the characters split_token splits at
IsSplitChar(c) == is_whitespace(c) \/ c \in parser.symbols

\* every whitespace character and every symbol-set character of a refined
\* token is the whole token
SplitCharsAlone ==
  \A k \in Refined :
    LET cs == chars(tokens[k].slice)
    IN (\E n \in 1..Len(cs) : IsSplitChar(cs[n])) => Len(cs) = 1

\* C29: when tokenize has returned, every whitespace character and every
\* symbol-set character of an Unrefined span is a token of its own, and a
\* token that is one symbol-set character has the variant Symbolic
C29_SymbolCharsAreSymbolic ==
  pc = "tokenized" =>
    /\ SplitCharsAlone
    /\ \A k \in Refined :
         LET cs == chars(tokens[k].slice)
         IN (Len(cs) = 1 /\ cs[1] \in parser.symbols) => tokens[k].variant = "Symbolic"

\* C30: no token has an empty text, and no pre-token has one either, the
\* one exception being the Unrefined span pre_tokenize starts with when the
\* message itself is empty
C30_NoEmptyToken ==
  /\ \A k \in 1..Len(tokens) : Len(tokens[k].slice) > 0
  /\ \A k \in 1..Len(pre_toks) :
       \/ Len(pre_toks[k].slice) > 0
       \/ messages[1] = <<>> /\ pre_toks = <<PreTok("Unrefined", 0, <<>>)>>

\* the offsets of the empty matches of a pattern in the whole message
EmptyMatches(re) ==
  LET ms == find_iter(re, messages[1])
  IN {ms[k][1] : k \in {j \in 1..Len(ms) : ms[j][1] = ms[j][2]}}

\* tokenize returned a special token and a refined token, a pattern having
\* an empty match at the offset of the refined token
C30_Witness ==
  /\ pc = "tokenized"
  /\ \E k \in 1..Len(tokens) : tokens[k].variant \in SpecialKinds
  /\ \E k \in Refined :
       \E re \in {parser.special_whites[r] : r \in 1..Len(parser.special_whites)}
                   \cup {parser.special_blacks[r] : r \in 1..Len(parser.special_blacks)} :
         tokens[k].start \in EmptyMatches(re)

====
